---- MODULE Spec2Model ----
\* A model of mt_meld.py: main() and process_lines() as a state machine, the
\* text transforms of process_line() as operators on character sequences.
\* A Python str is a sequence of one-character strings; None is the string
\* "None" where a path or language code is optional.
EXTENDS Integers, Sequences, FiniteSets, TLC

\* ---------------------------------------------------------------- bounds
\* The longest file the model opens, in lines.
MaxLines == 2
\* The longest --hyps list.
MaxHyps == 2

\* sys.maxsize, the default of --head, as the largest integer TLC holds.
maxsize == 2147483647

None == "None"

\* ------------------------------------------------------- str operations
\* The characters str.rstrip() and str.split() treat as whitespace.
IsSpace(c) == c \in {" ", "\n"}

\* str.rstrip(): drop trailing whitespace.
RECURSIVE rstrip(_)
rstrip(s) ==
    IF s = <<>> THEN s
    ELSE IF IsSpace(s[Len(s)]) THEN rstrip(SubSeq(s, 1, Len(s) - 1))
    ELSE s

LowerChar(c) ==
    CASE c = "A" -> "a"
      [] c = "B" -> "b"
      [] OTHER -> c

\* str.lower()
lower(s) == [i \in 1..Len(s) |-> LowerChar(s[i])]

\* str.split(): the maximal runs of non-whitespace characters.
RECURSIVE SplitFrom(_, _, _, _)
SplitFrom(s, i, cur, acc) ==
    IF i > Len(s) THEN (IF cur = <<>> THEN acc ELSE Append(acc, cur))
    ELSE IF IsSpace(s[i])
         THEN SplitFrom(s, i + 1, <<>>, IF cur = <<>> THEN acc ELSE Append(acc, cur))
         ELSE SplitFrom(s, i + 1, Append(cur, s[i]), acc)

split(s) == SplitFrom(s, 1, <<>>, <<>>)

\* ' '.join(tokens)
RECURSIVE join(_)
join(tokens) ==
    IF tokens = <<>> THEN <<>>
    ELSE IF Len(tokens) = 1 THEN tokens[1]
    ELSE tokens[1] \o <<" ">> \o join(Tail(tokens))

\* s.startswith(pat, i)
StartsAt(s, pat, i) ==
    /\ i + Len(pat) - 1 <= Len(s)
    /\ SubSeq(s, i, i + Len(pat) - 1) = pat

\* re.sub(pat, rep, s) for a literal pattern: the non-overlapping occurrences,
\* leftmost first.
RECURSIVE SubFrom(_, _, _, _)
SubFrom(s, pat, rep, i) ==
    IF i > Len(s) THEN <<>>
    ELSE IF StartsAt(s, pat, i) THEN rep \o SubFrom(s, pat, rep, i + Len(pat))
    ELSE <<s[i]>> \o SubFrom(s, pat, rep, i + 1)

re_sub(pat, rep, s) == SubFrom(s, pat, rep, 1)

BpeMarker == <<"@", "@", " ">>
AposEntity == <<"&", "a", "p", "o", "s", ";">>
Apostrophe == <<"'">>

\* ---------------------------------------------------- truecase model
\* Line 26 on a line without a token: split_line[0] raises IndexError.
HasBlankLine(lines) == \E i \in 1..Len(lines) : split(lines[i]) = <<>>

\* The loop of parse_truecase_model over the lines of a file none of which is
\* blank: lowercased first token -> first token, later lines winning.
RECURSIVE ParseFrom(_, _, _)
ParseFrom(lines, i, dict) ==
    IF i > Len(lines) THEN dict
    ELSE LET split_line == split(lines[i])
             key == lower(split_line[1])
         IN  ParseFrom(lines, i + 1,
                       [k \in DOMAIN dict \cup {key} |->
                           IF k = key THEN split_line[1] ELSE dict[k]])

EmptyDict == [k \in {} |-> <<>>]

parse_truecase_model(lines) == ParseFrom(lines, 1, EmptyDict)

TruecaseToken(word, truecase_dict) ==
    IF lower(word) \in DOMAIN truecase_dict THEN truecase_dict[lower(word)] ELSE word

truecase_line(line, truecase_dict) ==
    LET tokens == split(line) IN
    join([i \in 1..Len(tokens) |-> TruecaseToken(tokens[i], truecase_dict)])

\* ------------------------------------------------------- collaborators
\* MosesDetokenizer.detokenize(tokens, return_str=True) on the modelled
\* alphabet: tokens joined by one space, a comma attached to the token
\* before it.
RECURSIVE DetokFrom(_, _)
DetokFrom(tokens, i) ==
    IF i > Len(tokens) THEN <<>>
    ELSE (IF i = 1 \/ tokens[i] = <<",">> THEN <<>> ELSE <<" ">>)
         \o tokens[i] \o DetokFrom(tokens, i + 1)

detokenize(tokens) == DetokFrom(tokens, 1)

\* ---------------------------------------------------------- process_line
\* A variant of CaseBranch that tests --truecase before --lc.
CaseBranchTruecaseFirst(args) ==
    IF args.truecase # None THEN "truecase"
    ELSE IF args.lc THEN "lower"
    ELSE "none"

\* Which branch of the if/elif of lines 69-72 runs.
CaseBranch(args) ==
    IF args.lc THEN "lower"
    ELSE IF args.truecase # None THEN "truecase"
    ELSE "none"

\* The case step of process_line (lines 69-72).
CaseStep(args, line, truecase_dict) ==
    CASE CaseBranch(args) = "lower" -> lower(line)
      [] CaseBranch(args) = "truecase" -> truecase_line(line, truecase_dict)
      [] OTHER -> line

BpeStep(args, line) ==
    IF args.del_bpe THEN re_sub(BpeMarker, <<>>, line) ELSE line

\* `if cmd_args.detok:` tests the string for truth: only "" is false.
DetokEnabled(args) == args.detok # ""

DetokStep(args, line) ==
    IF DetokEnabled(args) THEN detokenize(split(line)) ELSE line

process_line(args, line, truecase_dict) ==
    re_sub(AposEntity, Apostrophe,
           DetokStep(args, BpeStep(args, CaseStep(args, rstrip(line), truecase_dict))))

\* A variant of print_hyp that compares the two lines without regard to case.
print_hypCaseless(hyp_num, ref_line, hyp_line, raw) ==
    [num |-> hyp_num, mark |-> (lower(ref_line) = lower(hyp_line)), text |-> hyp_line,
     raw |-> raw]

\* print_hyp: the MTk line, with the marker when the two lines are equal.
print_hyp(hyp_num, ref_line, hyp_line, raw) ==
    [num |-> hyp_num, mark |-> (ref_line = hyp_line), text |-> hyp_line, raw |-> raw]

\* ------------------------------------------------------------ the files
\* The lines the modelled files are made of (without their line terminator).
Pool ==
    << <<"a", " ", "B", " ", ",">>,
       <<"A", " ", " ", "b", " ", ",", " ">>,
       <<>>,
       <<"b", "@", "@", " ", "&", "a", "p", "o", "s", ";", "s">> >>

\* Line i of the file that starts at line `seed` of the pool.
FileLine(seed, i) == Pool[((seed + i - 1) % Len(Pool)) + 1]

SrcSeed == 0
RefSeed == 1
\* The j-th path of --hyps names a file that starts at line j - 1 of the pool:
\* the second hypothesis file equals the reference file.
HypSeed(j) == j - 1

\* What mtranslate.translate may answer.
GoogleAnswers == {Pool[2], Pool[4]}

\* The truecaser models --truecase may name: a model with a repeated key,
\* and one with a blank line.
TruecaseModel == << <<"b", " ", "1">>, <<"B">> >>
BlankLineModel == << <<"B">>, <<>> >>
TruecaseFiles == {TruecaseModel, BlankLineModel}

\* A file object: the file it reads, its length in lines, the lines consumed,
\* the readline()/next() calls made, and whether close() ran.
Open(seed, len) == [seed |-> seed, len |-> len, pos |-> 0, reads |-> 0, closed |-> FALSE]

AtEof(h) == h.pos >= h.len

\* A variant of ReadLine that hands over the line before the cursor.
ReadLineOffByOne(h) == IF AtEof(h) THEN <<>> ELSE Append(FileLine(h.seed, h.pos), "\n")

\* A variant of ReadLine that never reports the end of the file.
ReadLinePastEnd(h) == Append(FileLine(h.seed, h.pos + 1), "\n")

\* file.readline(): the next line with its terminator, '' at end of file.
ReadLine(h) == IF AtEof(h) THEN <<>> ELSE Append(FileLine(h.seed, h.pos + 1), "\n")

Advance(h) == [h EXCEPT !.pos = IF AtEof(h) THEN h.pos ELSE h.pos + 1,
                        !.reads = h.reads + 1]

\* Leaving the `with open(cmd_args.src) as src:` block closes src, and only src.
ExitWith(s) == [i \in 1..Len(s) |-> [s[i] EXCEPT !.closed = TRUE]]

\* --------------------------------------------------------------- state
VARIABLES
    argv_detok,     \* the value after --detok on the command line, None without the flag
    cmd_args,       \* the parsed arguments
    pc,             \* the statement main/process_lines is at
    exit_code,      \* the argument of exit(), 0 while no exit() ran
    error,          \* the uncaught exception, "none" while there is none
    loader_called,  \* parse_truecase_model was called
    truecase_dict,
    src, ref,       \* <<>> for None or not yet opened, else <<file object>>
    hyps,           \* the opened hypothesis files
    hyp_file,       \* main's position in cmd_args.hyps
    open_errors,    \* "Could not open" messages printed
    mtranslate,     \* the module is bound
    detok,          \* <<>> while the local is unbound, else <<language>>
    detok_called,   \* detok.detokenize ran
    truecase_called,\* truecase_line ran
    line_num,
    ref_line,
    hyp_idx,        \* process_lines' position in hyps
    hyp_num,
    group,          \* what the latest iteration has printed
    ngroups         \* groups printed in full (blank line included)

vars == << argv_detok, cmd_args, pc, exit_code, error, loader_called, truecase_dict,
           src, ref, hyps, hyp_file, open_errors, mtranslate, detok, detok_called,
           truecase_called, line_num, ref_line, hyp_idx, hyp_num, group, ngroups >>

\* Nothing printed yet.  blank: the group's closing blank line is printed.
NoGroup == [src |-> <<>>, ref |-> <<>>, mts |-> <<>>, blank |-> TRUE]

\* --head: the values below the longest source file, and the default.
HeadValues == 0..(MaxLines - 1) \cup {maxsize}

\* The lengths of the reference and hypothesis files: empty, one line short of
\* the longest source file, as long as it.
CompanionLens == {0, MaxLines - 1, MaxLines}

\* argparse: --detok defaults to "en".
ParseDetok(given) == IF given = None THEN "en" ELSE given

Init ==
    /\ argv_detok \in {None, "en", ""}
    /\ cmd_args \in
         { [src |-> s, ref |-> r, hyps |-> [j \in 1..n |-> j], del_bpe |-> b, lc |-> l,
            truecase |-> t, detok |-> ParseDetok(argv_detok), head |-> h, google |-> g] :
           s \in {"", "src.txt"}, r \in {None, "ref.txt"}, n \in 0..MaxHyps,
           b \in BOOLEAN, l \in BOOLEAN, t \in {None, "truecase.model"},
           h \in HeadValues, g \in {None, "de"} }
    /\ pc = "check_src"
    /\ exit_code = 0
    /\ error = "none"
    /\ loader_called = FALSE
    /\ truecase_dict = EmptyDict
    /\ src = <<>>
    /\ ref = <<>>
    /\ hyps = <<>>
    /\ hyp_file = 1
    /\ open_errors = 0
    /\ mtranslate = FALSE
    /\ detok = <<>>
    /\ detok_called = FALSE
    /\ truecase_called = FALSE
    /\ line_num = 0
    /\ ref_line = <<>>
    /\ hyp_idx = 1
    /\ hyp_num = 1
    /\ group = NoGroup
    /\ ngroups = 0

\* --------------------------------------------------------------- main
\* exit(code) inside the with block: SystemExit leaves the block.
Exit(code) ==
    /\ pc' = "exit"
    /\ exit_code' = code
    /\ src' = ExitWith(src)

\* An uncaught exception: it leaves the with block when src is open.
Raise(name) ==
    /\ pc' = "raised"
    /\ error' = name
    /\ src' = ExitWith(src)

\* Lines 165-167.
CheckSrc ==
    /\ pc = "check_src"
    /\ \E isfile \in (IF cmd_args.src = "" THEN {FALSE} ELSE BOOLEAN) :
          IF isfile
          THEN pc' = "load_truecase" /\ UNCHANGED <<exit_code, src>>
          ELSE Exit(1)
    /\ UNCHANGED << argv_detok, cmd_args, error, loader_called, truecase_dict, ref, hyps,
                    hyp_file, open_errors, mtranslate, detok, detok_called,
                    truecase_called, line_num, ref_line, hyp_idx, hyp_num, group, ngroups >>

\* Line 169: the loader is called whatever cmd_args.truecase is; open(None)
\* raises TypeError, a missing file IOError, a blank line IndexError.
LoadTruecase ==
    /\ pc = "load_truecase"
    /\ loader_called' = TRUE
    /\ IF cmd_args.truecase = None
       THEN Raise("TypeError") /\ UNCHANGED truecase_dict
       ELSE \/ Raise("IOError") /\ UNCHANGED truecase_dict
            \/ \E f \in TruecaseFiles :
                 IF HasBlankLine(f)
                 THEN Raise("IndexError") /\ UNCHANGED truecase_dict
                 ELSE /\ truecase_dict' = parse_truecase_model(f)
                      /\ pc' = "open_src"
                      /\ UNCHANGED <<error, src>>
    /\ UNCHANGED << argv_detok, cmd_args, exit_code, ref, hyps, hyp_file, open_errors,
                    mtranslate, detok, detok_called, truecase_called, line_num,
                    ref_line, hyp_idx, hyp_num, group, ngroups >>

\* Line 171.
OpenSrc ==
    /\ pc = "open_src"
    /\ \E m \in 0..MaxLines : src' = <<Open(SrcSeed, m)>>
    /\ pc' = "open_ref"
    /\ UNCHANGED << argv_detok, cmd_args, exit_code, error, loader_called, truecase_dict,
                    ref, hyps, hyp_file, open_errors, mtranslate, detok, detok_called,
                    truecase_called, line_num, ref_line, hyp_idx, hyp_num, group, ngroups >>

AfterOpens(k) == IF k > Len(cmd_args.hyps) THEN "setup_google" ELSE "open_hyp"

\* Lines 172-177: an unreadable reference is not caught.
OpenRef ==
    /\ pc = "open_ref"
    /\ IF cmd_args.ref = None
       THEN /\ ref' = <<>>
            /\ pc' = AfterOpens(1)
            /\ UNCHANGED <<error, src>>
       ELSE \/ Raise("IOError") /\ UNCHANGED ref
            \/ \E m \in CompanionLens :
                 /\ ref' = <<Open(RefSeed, m)>>
                 /\ pc' = AfterOpens(1)
                 /\ UNCHANGED <<error, src>>
    /\ hyps' = <<>>
    /\ hyp_file' = 1
    /\ UNCHANGED << argv_detok, cmd_args, exit_code, loader_called, truecase_dict,
                    open_errors, mtranslate, detok, detok_called, truecase_called,
                    line_num, ref_line, hyp_idx, hyp_num, group, ngroups >>

\* Lines 178-182, one iteration: an unreadable hypothesis file is reported and skipped.
OpenHyp ==
    /\ pc = "open_hyp"
    /\ \/ /\ open_errors' = open_errors + 1
          /\ UNCHANGED hyps
       \/ \E m \in CompanionLens :
            /\ hyps' = Append(hyps, Open(HypSeed(cmd_args.hyps[hyp_file]), m))
            /\ UNCHANGED open_errors
    /\ hyp_file' = hyp_file + 1
    /\ pc' = AfterOpens(hyp_file + 1)
    /\ UNCHANGED << argv_detok, cmd_args, exit_code, error, loader_called, truecase_dict,
                    src, ref, mtranslate, detok, detok_called, truecase_called,
                    line_num, ref_line, hyp_idx, hyp_num, group, ngroups >>

\* ------------------------------------------------------- process_lines
\* Lines 84-89.
SetupGoogle ==
    /\ pc = "setup_google"
    /\ IF cmd_args.google = None
       THEN pc' = "setup_detok" /\ UNCHANGED <<mtranslate, exit_code, src>>
       ELSE \/ /\ mtranslate' = TRUE
               /\ pc' = "setup_detok"
               /\ UNCHANGED <<exit_code, src>>
            \/ Exit(2) /\ UNCHANGED mtranslate
    /\ UNCHANGED << argv_detok, cmd_args, error, loader_called, truecase_dict, ref, hyps,
                    hyp_file, open_errors, detok, detok_called, truecase_called,
                    line_num, ref_line, hyp_idx, hyp_num, group, ngroups >>

\* Lines 91-105.
SetupDetok ==
    /\ pc = "setup_detok"
    /\ IF DetokEnabled(cmd_args)
       THEN \/ /\ detok' = <<cmd_args.detok>>
               /\ pc' = "next_src"
               /\ UNCHANGED <<exit_code, src>>
            \/ Exit(3) /\ UNCHANGED detok
            \/ Exit(4) /\ UNCHANGED detok
       ELSE pc' = "next_src" /\ UNCHANGED <<detok, exit_code, src>>
    /\ line_num' = 0
    /\ UNCHANGED << argv_detok, cmd_args, error, loader_called, truecase_dict, ref, hyps,
                    hyp_file, open_errors, mtranslate, detok_called, truecase_called,
                    ref_line, hyp_idx, hyp_num, group, ngroups >>

\* The bookkeeping of one process_line call.
Processed ==
    /\ detok_called' = (detok_called \/ DetokEnabled(cmd_args))
    /\ truecase_called' = (truecase_called \/ CaseBranch(cmd_args) = "truecase")

\* A variant of OverCap that stops one line early.
OverCapInclusive(n, args) == n >= args.head

\* Line 108.
OverCap(n, args) == n > args.head

\* A variant of AfterHyps that leaves the loop before the last hypothesis.
AfterHypsSkipLast(k) ==
    IF k < Len(hyps) THEN "read_hyp"
    ELSE IF cmd_args.google # None THEN "google"
    ELSE "end_group"

\* Where process_lines goes when the loop of line 122 is at hyps[k].
AfterHyps(k) ==
    IF k <= Len(hyps) THEN "read_hyp"
    ELSE IF cmd_args.google # None THEN "google"
    ELSE "end_group"

\* Lines 106-112: the next source line, the cap, the Src line.  With detok
\* unbound, naming it at line 111 raises UnboundLocalError.
NextSrc ==
    /\ pc = "next_src"
    /\ IF AtEof(src[1])
       THEN /\ pc' = "done"
            /\ src' = ExitWith(src)
            /\ UNCHANGED <<line_num, error, group, detok_called, truecase_called>>
       ELSE /\ line_num' = line_num + 1
            /\ IF OverCap(line_num + 1, cmd_args)
               THEN /\ pc' = "done"
                    /\ src' = ExitWith(<<Advance(src[1])>>)
                    /\ UNCHANGED <<error, group, detok_called, truecase_called>>
               ELSE IF detok = <<>>
               THEN /\ pc' = "raised"
                    /\ error' = "UnboundLocalError"
                    /\ src' = ExitWith(<<Advance(src[1])>>)
                    /\ UNCHANGED <<group, detok_called, truecase_called>>
               ELSE /\ src' = <<Advance(src[1])>>
                    /\ group' = [blank |-> FALSE,
                                 src |-> << [text |-> process_line(cmd_args, ReadLine(src[1]),
                                                                  truecase_dict),
                                             raw |-> ReadLine(src[1])] >>,
                                 ref |-> <<>>, mts |-> <<>>]
                    /\ Processed
                    /\ pc' = "read_ref"
                    /\ UNCHANGED error
    /\ UNCHANGED << argv_detok, cmd_args, exit_code, loader_called, truecase_dict, ref,
                    hyps, hyp_file, open_errors, mtranslate, detok, ref_line, hyp_idx,
                    hyp_num, ngroups >>

\* Lines 114-121.
ReadRef ==
    /\ pc = "read_ref"
    /\ IF ref # <<>>
       THEN /\ ref' = <<Advance(ref[1])>>
            /\ ref_line' = process_line(cmd_args, ReadLine(ref[1]), truecase_dict)
            /\ group' = [group EXCEPT !.ref = << [text |-> ref_line',
                                                  raw |-> ReadLine(ref[1])] >>]
            /\ Processed
       ELSE /\ ref_line' = <<>>
            /\ UNCHANGED <<ref, group, detok_called, truecase_called>>
    /\ hyp_num' = 1
    /\ hyp_idx' = 1
    /\ pc' = AfterHyps(1)
    /\ UNCHANGED << argv_detok, cmd_args, exit_code, error, loader_called, truecase_dict,
                    src, hyps, hyp_file, open_errors, mtranslate, detok, line_num,
                    ngroups >>

\* Lines 122-126, one iteration.
ReadHyp ==
    /\ pc = "read_hyp"
    /\ hyps' = [hyps EXCEPT ![hyp_idx] = Advance(hyps[hyp_idx])]
    /\ group' = [group EXCEPT !.mts =
                    Append(@, print_hyp(hyp_num, ref_line,
                                        process_line(cmd_args, ReadLine(hyps[hyp_idx]),
                                                     truecase_dict),
                                        ReadLine(hyps[hyp_idx])))]
    /\ Processed
    /\ hyp_num' = hyp_num + 1
    /\ hyp_idx' = hyp_idx + 1
    /\ pc' = AfterHyps(hyp_idx + 1)
    /\ UNCHANGED << argv_detok, cmd_args, exit_code, error, loader_called, truecase_dict,
                    src, ref, hyp_file, open_errors, mtranslate, detok, line_num,
                    ref_line, ngroups >>

\* Lines 128-132: the translation is normalized with an empty truecase model.
GoogleHyp ==
    /\ pc = "google"
    /\ \/ /\ \E answer \in GoogleAnswers :
               group' = [group EXCEPT !.mts =
                           Append(@, print_hyp(hyp_num, ref_line,
                                               process_line(cmd_args, answer, EmptyDict),
                                               answer))]
          /\ Processed
          /\ pc' = "end_group"
          /\ UNCHANGED <<error, src>>
       \/ /\ Raise("URLError")
          /\ UNCHANGED <<group, detok_called, truecase_called>>
    /\ UNCHANGED << argv_detok, cmd_args, exit_code, loader_called, truecase_dict, ref,
                    hyps, hyp_file, open_errors, mtranslate, detok, line_num, ref_line,
                    hyp_idx, hyp_num, ngroups >>

\* Line 134.
EndGroup ==
    /\ pc = "end_group"
    /\ ngroups' = ngroups + 1
    /\ group' = [group EXCEPT !.blank = TRUE]
    /\ pc' = "next_src"
    /\ UNCHANGED << argv_detok, cmd_args, exit_code, error, loader_called, truecase_dict,
                    src, ref, hyps, hyp_file, open_errors, mtranslate, detok,
                    detok_called, truecase_called, line_num, ref_line, hyp_idx,
                    hyp_num >>

Next ==
    \/ CheckSrc
    \/ LoadTruecase
    \/ OpenSrc
    \/ OpenRef
    \/ OpenHyp
    \/ SetupGoogle
    \/ SetupDetok
    \/ NextSrc
    \/ ReadRef
    \/ ReadHyp
    \/ GoogleHyp
    \/ EndGroup

Spec == Init /\ [][Next]_vars

Terminated == pc \in {"done", "exit", "raised"}

TypeOK ==
    /\ pc \in {"check_src", "load_truecase", "open_src", "open_ref", "open_hyp",
               "setup_google", "setup_detok", "next_src", "read_ref", "read_hyp",
               "google", "end_group", "done", "exit", "raised"}
    /\ exit_code \in 0..4
    /\ Len(src) <= 1 /\ Len(ref) <= 1 /\ Len(hyps) <= Len(cmd_args.hyps)
    /\ ngroups <= line_num

\* ------------------------------------------------------------- claims
\* The ordinal of the group the latest iteration prints: the groups printed in
\* full, plus the one in progress.
K == IF group.blank THEN ngroups ELSE ngroups + 1

\* Line k of an opened stream as readline() hands it over, '' past its end.
StreamLine(h, k) == IF k <= h.len THEN Append(FileLine(h.seed, k), "\n") ELSE <<>>

Min(a, b) == IF a < b THEN a ELSE b

Handles == {src[i] : i \in 1..Len(src)} \cup {ref[i] : i \in 1..Len(ref)}
           \cup {hyps[i] : i \in 1..Len(hyps)}

\* The MT lines of the group that come from hypothesis files.
FileMts == IF Len(group.mts) <= Len(hyps) THEN Len(group.mts) ELSE Len(hyps)

\* The readline() calls a companion has had: one per group printed in full,
\* and one more once the group in progress shows its line.
ExpectedReads(shown) ==
    IF group.blank THEN ngroups ELSE IF shown THEN ngroups + 1 ELSE ngroups

\* C1: the k-th group shows the normalized k-th line of the source, of the
\* reference and of every opened hypothesis file ('' past the end of a
\* companion), and every companion is read once per group, the reference
\* first, then the hypotheses in order: the companions already shown in group
\* k have been read k times, the others k - 1 times.
C1_Lockstep ==
    /\ group.src # <<>> =>
         /\ K >= 1
         /\ group.src[1].text =
              process_line(cmd_args, StreamLine(src[1], K), truecase_dict)
         /\ K <= src[1].len
    /\ group.ref # <<>> =>
         /\ ref # <<>>
         /\ group.ref[1].text =
              process_line(cmd_args, StreamLine(ref[1], K), truecase_dict)
    /\ \A j \in 1..FileMts :
         group.mts[j].text =
            process_line(cmd_args, StreamLine(hyps[j], K), truecase_dict)
    /\ pc \in {"next_src", "read_ref", "read_hyp", "google", "end_group", "done"} =>
         /\ ref # <<>> => ref[1].reads = ExpectedReads(group.ref # <<>>)
         /\ \A j \in 1..Len(hyps) : hyps[j].reads = ExpectedReads(j <= Len(group.mts))
         /\ (group.mts # <<>> /\ ref # <<>>) => group.ref # <<>>
         /\ (group.blank /\ group.src # <<>>) =>
              /\ ref # <<>> => group.ref # <<>>
              /\ Len(group.mts) >= Len(hyps)

C1_Witness ==
    /\ pc = "next_src"
    /\ ngroups = 2
    /\ ref # <<>>
    /\ Len(hyps) = 2
    /\ hyps[1].len < 2
    /\ hyps[2].reads = 2

\* C2: a run that ends normally has printed min(head, m) groups, m the
\* number of lines of the source, whatever the companions hold; without
\* --head (head = sys.maxsize) that is m groups.
C2_LineCap ==
    pc = "done" =>
        /\ ngroups = Min(cmd_args.head, src[1].len)
        /\ cmd_args.head = maxsize => ngroups = src[1].len

C2_Witness ==
    /\ pc = "done"
    /\ cmd_args.head = 1
    /\ src[1].len = 2
    /\ ngroups = 1
    /\ Len(hyps) = 2
    /\ hyps[1].len = 2
    /\ hyps[2].len = 0

\* Once a hypothesis file is exhausted, every later group shows its MT line
\* with empty text, and the run that ends normally has printed every group the
\* source and the cap allow.
C3_ExhaustedText ==
    /\ \A j \in 1..FileMts : K > hyps[j].len => group.mts[j].text = <<>>
    /\ (pc = "done" /\ \E j \in 1..Len(hyps) : hyps[j].len < src[1].len) =>
           ngroups = Min(cmd_args.head, src[1].len)

\* Reading an exhausted hypothesis file prints an MT line with empty text,
\* raises nothing, exits nowhere and goes on to the next statement.
C3_ExhaustedStep ==
    (pc = "read_hyp" /\ AtEof(hyps[hyp_idx])) =>
        /\ pc' \in {"read_hyp", "google", "end_group"}
        /\ error' = "none"
        /\ exit_code' = 0
        /\ Len(group'.mts) = Len(group.mts) + 1
        /\ group'.mts[Len(group'.mts)].text = <<>>

\* C3: the MT line of an exhausted hypothesis file is always the empty text,
\* and the read of an exhausted file always goes on without an error.
C3_Exhaustion == [](C3_ExhaustedText) /\ [][C3_ExhaustedStep]_vars

C3_Witness ==
    /\ pc = "next_src"
    /\ ngroups = 2
    /\ Len(hyps) = 2
    /\ hyps[1].len = 1
    /\ hyps[2].len = 2
    /\ hyps[1].reads = 2
    /\ group.src[1].text # <<>>
    /\ group.mts[1].text = <<>>

\* C4: with a reference, an MT line carries the marker iff its normalized
\* text equals the normalized reference line of the group; the MT lines are
\* numbered 1, 2, ... in order, the translation of the source last.
C4_MatchMarking ==
    (cmd_args.ref # None /\ group.ref # <<>>) =>
        /\ LET reference == process_line(cmd_args, StreamLine(ref[1], K), truecase_dict)
           IN  \A j \in 1..Len(group.mts) :
                 /\ group.mts[j].num = j
                 /\ group.mts[j].mark <=>
                      ( process_line(cmd_args, group.mts[j].raw,
                                     IF j <= Len(hyps) THEN truecase_dict ELSE EmptyDict)
                        = reference )
        /\ Len(group.mts) <= Len(hyps) + (IF cmd_args.google # None THEN 1 ELSE 0)
        /\ \A j \in 1..FileMts : group.mts[j].raw = StreamLine(hyps[j], K)
        /\ group.blank =>
             Len(group.mts) = Len(hyps) + (IF cmd_args.google # None THEN 1 ELSE 0)
        /\ Len(group.mts) > Len(hyps) => group.mts[Len(hyps) + 1].raw \in GoogleAnswers

C4_Witness ==
    /\ cmd_args.ref # None
    /\ group.blank
    /\ Len(group.mts) = 3
    /\ ~group.mts[1].mark
    /\ group.mts[2].mark
    /\ group.mts[2].text # <<>>
    /\ group.mts[3].mark

\* C5: without --truecase the loader parse_truecase_model is not called and
\* the run does not fail at it.
C5_NoLoaderWithoutTruecase ==
    cmd_args.truecase = None => (~loader_called /\ error # "TypeError")

\* C6: without --detok on the command line no detokenizer is constructed, the
\* run cannot exit with 3 or 4, and no line is detokenized.
C6_DetokOnlyIfGiven ==
    argv_detok = None => (detok = <<>> /\ exit_code \notin {3, 4} /\ ~detok_called)

\* C7: when the run has ended, on any path, every file it opened is closed.
C7_AllClosed ==
    Terminated => \A h \in Handles : h.closed

\* C8 as stated: every group printed in full has as many MT lines from
\* hypothesis files as --hyps has paths, and a Ref line iff --ref was given.
C8_GroupShapeAsStated ==
    (group.blank /\ group.src # <<>>) =>
        /\ FileMts = Len(cmd_args.hyps)
        /\ group.ref # <<>> <=> cmd_args.ref # None

\* C8 amended: every group printed in full has as many MT lines from
\* hypothesis files as paths of --hyps could be opened (each unreadable path
\* was reported and skipped), and a Ref line iff --ref was given.
C8_GroupShape ==
    (group.blank /\ group.src # <<>>) =>
        /\ FileMts = Len(cmd_args.hyps) - open_errors
        /\ FileMts = Len(hyps)
        /\ Len(group.mts) - FileMts = (IF cmd_args.google # None THEN 1 ELSE 0)
        /\ group.ref # <<>> <=> cmd_args.ref # None

C8_Witness ==
    /\ group.blank
    /\ group.src # <<>>
    /\ Len(cmd_args.hyps) = 2
    /\ open_errors = 1
    /\ Len(group.mts) = 1
    /\ cmd_args.ref # None

\* The normalization of a line with plain lowercasing as its case step.
LowercasedLine(args, raw) ==
    re_sub(AposEntity, Apostrophe, DetokStep(args, BpeStep(args, lower(rstrip(raw)))))

\* C9: with --lc and --truecase both given, truecase_line never runs and
\* every printed line is the normalization of its input with plain
\* lowercasing as the case step.
C9_LowercaseWins ==
    (cmd_args.lc /\ cmd_args.truecase # None) =>
        /\ ~truecase_called
        /\ \A i \in 1..Len(group.src) :
             group.src[i].text = LowercasedLine(cmd_args, group.src[i].raw)
        /\ \A i \in 1..Len(group.ref) :
             group.ref[i].text = LowercasedLine(cmd_args, group.ref[i].raw)
        /\ \A j \in 1..Len(group.mts) :
             group.mts[j].text = LowercasedLine(cmd_args, group.mts[j].raw)

C9_Witness ==
    /\ cmd_args.lc
    /\ cmd_args.truecase # None
    /\ group.blank
    /\ group.ref # <<>>
    /\ Len(group.mts) = 3
    /\ group.src[1].text # truecase_line(rstrip(group.src[1].raw), truecase_dict)
    /\ ~cmd_args.del_bpe

\* C10: without a reference no MT line carries the marker.
C10_NoMarkerWithoutRef ==
    cmd_args.ref = None => \A j \in 1..Len(group.mts) : ~group.mts[j].mark
====
